---- MODULE Spec2Model ----
(***************************************************************************)
(* A model of rtasks (src/main.rs): the task store (App), its persistence  *)
(* to the data file, and the key handler of the interactive session.       *)
(*                                                                         *)
(* Text is a sequence of one-character strings.  Indices into tasks are    *)
(* 0-based as in the source; TLA+ sequences are 1-based, so the task at    *)
(* index i is tasks[i + 1].                                                *)
(***************************************************************************)
EXTENDS Integers, Sequences, FiniteSets, TLC

(***************************************************************************)
(* Bounds of the model.                                                    *)
(***************************************************************************)
\* The largest value of the id type (usize::MAX), scaled down so that the
\* overflow of the id counter is within reach.
UsizeMax == 3
\* An add is committed only while the list holds fewer tasks than this.
MaxTasks == 3
\* A session types at most this many characters.
MaxTyped == 2

VARIABLES
    tasks,            \* App.tasks
    selected_index,   \* App.selected_index
    mode,             \* App.mode
    input_buffer,     \* App.input_buffer
    next_id,          \* App.next_id
    store,            \* the data file: [exists, data]
    pc,               \* "running" (waiting for a key), "exited" (the loop has
                      \* ended), "panicked"
                      \* (in SpecRT: "rt_start", "rt_saved", "rt_loaded";
                      \* in SpecMain also: "main", "created", "io_error",
                      \* "returned"; in SpecDraw: "draw", "drawn")
    overflow_checks,  \* the build: TRUE panics on integer overflow, FALSE wraps
    writable,         \* the environment: TRUE when writes of the data file succeed
    typed,            \* the number of characters typed in this session
    max_seen,         \* history: the largest id loaded or added in this session, or -1
    snapshot,         \* history: the task list when the text-entry mode was entered
                      \* (in SpecRT: the task list that was saved)
    last_key,         \* history: the last key that matched an arm, "none" at startup
                      \* (in SpecMain also: the command-line option acted on, or
                      \* the call of the loop that failed)
    before_toggle,    \* history: the task list before the last key, if it was the toggle key
    old_file,         \* the legacy file ./tasks.json: [exists, data]
    raw_mode,         \* the terminal: TRUE while raw mode is enabled
    frame             \* the terminal: the frame draw_ui drew last, or NoFrame

vars == <<tasks, selected_index, mode, input_buffer, next_id, store, pc,
          overflow_checks, writable, typed, max_seen, snapshot, last_key,
          before_toggle, old_file, raw_mode, frame>>

(***************************************************************************)
(* Text.                                                                   *)
(***************************************************************************)
\* The characters typed in a text-entry mode: a letter and a blank.
TextChars == {"q", " "}

IsWhitespace(c) == c \in {" ", "\t", "\n", "\r"}

RECURSIVE TrimStart(_)
TrimStart(s) ==
    IF s # <<>> /\ IsWhitespace(Head(s)) THEN TrimStart(Tail(s)) ELSE s

RECURSIVE TrimEnd(_)
TrimEnd(s) ==
    IF s # <<>> /\ IsWhitespace(s[Len(s)])
    THEN TrimEnd(SubSeq(s, 1, Len(s) - 1))
    ELSE s

\* A variant of Trim that removes the leading white space only (trim_start).
TrimStartOnly(s) == TrimStart(s)

\* A variant of Trim that removes nothing (the buffer taken as it is).
NoTrim(s) == s

\* str::trim
Trim(s) == TrimEnd(TrimStart(s))

\* A variant of Pop that empties the text (clear).
Pop_clears(s) == <<>>

\* String::pop
Pop(s) == IF s = <<>> THEN s ELSE SubSeq(s, 1, Len(s) - 1)

(***************************************************************************)
(* Tasks.                                                                  *)
(***************************************************************************)
Task(id, title, description, completed) ==
    [id |-> id, title |-> title, description |-> description,
     completed |-> completed]

\* Vec::remove at a 0-based index
RemoveAt(s, i) == SubSeq(s, 1, i) \o SubSeq(s, i + 2, Len(s))

RECURSIVE MaxIdOf(_)
\* tasks.iter().map(|t| t.id).max() of a non-empty list
MaxIdOf(ts) ==
    IF Len(ts) = 1 THEN ts[1].id
    ELSE LET m == MaxIdOf(Tail(ts))
         IN  IF ts[1].id > m THEN ts[1].id ELSE m

(***************************************************************************)
(* The file format (serde_json over Vec<Task>).  A file is a sequence of   *)
(* records, one per task, whose fields hold the text written for them:     *)
(* the id in decimal, the strings escaped, the flag as a literal.          *)
(***************************************************************************)
Digits == <<"0", "1", "2", "3", "4", "5", "6", "7", "8", "9">>

DigitValue(c) == CHOOSE d \in 0..9 : Digits[d + 1] = c

IsDigit(c) == \E d \in 0..9 : Digits[d + 1] = c

RECURSIVE ToDecimal(_)
ToDecimal(n) ==
    IF n < 10 THEN <<Digits[n + 1]>>
    ELSE ToDecimal(n \div 10) \o <<Digits[(n % 10) + 1]>>

RECURSIVE DecimalValue(_)
DecimalValue(ds) ==
    IF ds = <<>> THEN 0
    ELSE 10 * DecimalValue(SubSeq(ds, 1, Len(ds) - 1)) + DigitValue(ds[Len(ds)])

\* A JSON number read as usize: digits only, no leading zero, in range.
ParseUsize(ds) ==
    IF /\ ds # <<>>
       /\ \A k \in 1..Len(ds) : IsDigit(ds[k])
       /\ (Len(ds) > 1 => ds[1] # "0")
       /\ DecimalValue(ds) <= UsizeMax
    THEN [ok |-> TRUE, value |-> DecimalValue(ds)]
    ELSE [ok |-> FALSE, value |-> 0]

RECURSIVE Escape(_)
\* The body of a JSON string: a quote and a backslash are written escaped.
Escape(s) ==
    IF s = <<>> THEN <<>>
    ELSE IF Head(s) \in {"\"", "\\"}
         THEN <<"\\", Head(s)>> \o Escape(Tail(s))
         ELSE <<Head(s)>> \o Escape(Tail(s))

RECURSIVE Unescape(_)
\* Reading the body of a JSON string: a bare quote or a backslash that
\* escapes nothing is an error.
Unescape(s) ==
    IF s = <<>> THEN [ok |-> TRUE, value |-> <<>>]
    ELSE IF Head(s) = "\\"
         THEN IF Len(s) >= 2 /\ s[2] \in {"\"", "\\"}
              THEN LET r == Unescape(SubSeq(s, 3, Len(s)))
                   IN  [ok |-> r.ok, value |-> <<s[2]>> \o r.value]
              ELSE [ok |-> FALSE, value |-> <<>>]
         ELSE IF Head(s) = "\""
              THEN [ok |-> FALSE, value |-> <<>>]
              ELSE LET r == Unescape(Tail(s))
                   IN  [ok |-> r.ok, value |-> <<Head(s)>> \o r.value]

ParseBool(w) ==
    IF w \in {"true", "false"}
    THEN [ok |-> TRUE, value |-> (w = "true")]
    ELSE [ok |-> FALSE, value |-> FALSE]

\* #[derive(Serialize)] for Task
SerializeTask(t) ==
    [id |-> ToDecimal(t.id), title |-> Escape(t.title),
     description |-> Escape(t.description),
     completed |-> IF t.completed THEN "true" ELSE "false"]

\* serde_json::to_string_pretty(&self.tasks)
ToStringPretty(ts) == [k \in 1..Len(ts) |-> SerializeTask(ts[k])]

\* #[derive(Deserialize)] for Task
DeserializeTask(r) ==
    LET i == ParseUsize(r.id)
        t == Unescape(r.title)
        d == Unescape(r.description)
        c == ParseBool(r.completed)
    IN  [ok |-> i.ok /\ t.ok /\ d.ok /\ c.ok,
         value |-> Task(i.value, t.value, d.value, c.value)]

\* serde_json::from_str::<Vec<Task>>(&data)
FromStr(data) ==
    IF \A k \in 1..Len(data) : DeserializeTask(data[k]).ok
    THEN [ok |-> TRUE,
          value |-> [k \in 1..Len(data) |-> DeserializeTask(data[k]).value]]
    ELSE [ok |-> FALSE, value |-> <<>>]

NoFile == [exists |-> FALSE, data |-> <<>>]

FileOf(data) == [exists |-> TRUE, data |-> data]

\* A data file that does not parse: its only record has no id.
MalformedFile ==
    FileOf(<<[id |-> <<>>, title |-> <<"q">>, description |-> <<>>,
              completed |-> "true"]>>)

(***************************************************************************)
(* App::load_tasks, from the data file: the loaded list, the id counter,   *)
(* and whether the computation of the counter panicked.                    *)
(***************************************************************************)
load_tasks(file, checks) ==
    LET parsed == IF file.exists THEN FromStr(file.data)
                  ELSE [ok |-> FALSE, value |-> <<>>]
    IN  IF ~parsed.ok \/ parsed.value = <<>>
        THEN [tasks |-> parsed.value, next_id |-> 1, panicked |-> FALSE]
        ELSE LET max_id == MaxIdOf(parsed.value)
             IN  IF max_id = UsizeMax
                 THEN [tasks |-> parsed.value,
                       next_id |-> IF checks THEN 1 ELSE 0,
                       panicked |-> checks]
                 ELSE [tasks |-> parsed.value, next_id |-> max_id + 1,
                       panicked |-> FALSE]

\* App::save_tasks: the file after a write that succeeds (ok) or fails.
save_tasks(ts, file, ok) ==
    IF ok THEN FileOf(ToStringPretty(ts)) ELSE file

(***************************************************************************)
(* The data files found at startup: no file, a file that does not parse,   *)
(* and the files an earlier session wrote: the empty list, or one task     *)
(* with any id, a one-letter title, no description, not completed.         *)
(***************************************************************************)
StoredTaskSeqs ==
    {<<>>} \cup { <<Task(i, <<"q">>, <<>>, FALSE)>> : i \in 0..UsizeMax }

InitFiles ==
    {NoFile, MalformedFile} \cup { FileOf(ToStringPretty(ts)) : ts \in StoredTaskSeqs }

Max(a, b) == IF a > b THEN a ELSE b

\* A variant of new whose buffer starts with text in it.
new_with_text(file, checks) ==
    LET loaded == load_tasks(file, checks)
    IN  [panicked |-> loaded.panicked, tasks |-> loaded.tasks,
         selected_index |-> 0, mode |-> "Normal", input_buffer |-> <<"q">>,
         next_id |-> loaded.next_id]

\* App::new: the fields of the new App, or a panic of load_tasks (the
\* process ends, and no App is left).
new(file, checks) ==
    LET loaded == load_tasks(file, checks)
    IN  IF loaded.panicked
        THEN [panicked |-> TRUE, tasks |-> <<>>, selected_index |-> 0,
              mode |-> "Normal", input_buffer |-> <<>>, next_id |-> 0]
        ELSE [panicked |-> FALSE, tasks |-> loaded.tasks, selected_index |-> 0,
              mode |-> "Normal", input_buffer |-> <<>>,
              next_id |-> loaded.next_id]

MaxSeenOf(ts) == IF ts = <<>> THEN -1 ELSE MaxIdOf(ts)

\* No frame was drawn.
NoFrame == [drawn |-> FALSE]

\* main: App::new, then the interactive session waits for its first key
Init ==
    \E file \in InitFiles, checks \in BOOLEAN, w \in BOOLEAN :
        LET app == new(file, checks)
        IN  /\ store = file
            /\ overflow_checks = checks
            /\ writable = w
            /\ tasks = app.tasks
            /\ selected_index = app.selected_index
            /\ mode = app.mode
            /\ input_buffer = app.input_buffer
            /\ next_id = app.next_id
            /\ pc = IF app.panicked THEN "panicked" ELSE "running"
            /\ typed = 0
            /\ max_seen = MaxSeenOf(app.tasks)
            /\ snapshot = <<>>
            /\ last_key = "none"
            /\ before_toggle = <<>>
            /\ old_file = NoFile
            /\ raw_mode = ~app.panicked
            /\ frame = NoFrame

(***************************************************************************)
(* The methods of App.  Each states the fields it may change: tasks,       *)
(* selected_index, next_id, the data file, and whether the process goes    *)
(* on.                                                                     *)
(***************************************************************************)
add_task(title, description) ==
    IF next_id = UsizeMax /\ overflow_checks
    THEN \* self.next_id += 1 panics after the push: nothing is saved, and
         \* the process ends
         /\ pc' = "panicked"
         /\ tasks' = <<>>
         /\ selected_index' = 0
         /\ next_id' = 0
         /\ max_seen' = -1
         /\ store' = store
    ELSE /\ tasks' = Append(tasks, Task(next_id, title, description, FALSE))
         /\ max_seen' = Max(max_seen, next_id)
         /\ selected_index' = selected_index
         /\ next_id' = (next_id + 1) % (UsizeMax + 1)
         /\ store' = save_tasks(tasks', store, writable)
         /\ pc' = pc

\* A variant of delete_task that does not repair the selection.
delete_task_no_repair ==
    /\ UNCHANGED <<next_id, pc, max_seen, selected_index>>
    /\ IF tasks # <<>> /\ selected_index < Len(tasks)
       THEN /\ tasks' = RemoveAt(tasks, selected_index)
            /\ store' = save_tasks(tasks', store, writable)
       ELSE UNCHANGED <<tasks, store>>

\* A variant of delete_task that removes the last task (pop) instead of the
\* selected one.
delete_task_pop ==
    /\ UNCHANGED <<next_id, pc, max_seen>>
    /\ IF tasks # <<>> /\ selected_index < Len(tasks)
       THEN /\ tasks' = RemoveAt(tasks, Len(tasks) - 1)
            /\ selected_index' =
                  IF selected_index >= Len(tasks') /\ tasks' # <<>>
                  THEN Len(tasks') - 1
                  ELSE selected_index
            /\ store' = save_tasks(tasks', store, writable)
       ELSE UNCHANGED <<tasks, selected_index, store>>

delete_task ==
    /\ UNCHANGED <<next_id, pc, max_seen>>
    /\ IF tasks # <<>> /\ selected_index < Len(tasks)
       THEN /\ tasks' = RemoveAt(tasks, selected_index)
            /\ selected_index' =
                  IF selected_index >= Len(tasks') /\ tasks' # <<>>
                  THEN Len(tasks') - 1
                  ELSE selected_index
            /\ store' = save_tasks(tasks', store, writable)
       ELSE UNCHANGED <<tasks, selected_index, store>>

\* A variant of toggle_task that sets the flag instead of flipping it.
toggle_task_sets ==
    /\ UNCHANGED <<next_id, pc, max_seen, selected_index>>
    /\ IF tasks # <<>> /\ selected_index < Len(tasks)
       THEN /\ tasks' = [tasks EXCEPT ![selected_index + 1].completed = TRUE]
            /\ store' = save_tasks(tasks', store, writable)
       ELSE UNCHANGED <<tasks, store>>

toggle_task ==
    /\ UNCHANGED <<next_id, pc, max_seen, selected_index>>
    /\ IF tasks # <<>> /\ selected_index < Len(tasks)
       THEN /\ tasks' = [tasks EXCEPT ![selected_index + 1].completed = ~@]
            /\ store' = save_tasks(tasks', store, writable)
       ELSE UNCHANGED <<tasks, store>>

edit_current_task(title) ==
    /\ UNCHANGED <<next_id, pc, max_seen, selected_index>>
    /\ IF tasks # <<>> /\ selected_index < Len(tasks)
       THEN /\ tasks' = [tasks EXCEPT ![selected_index + 1].title = title]
            /\ store' = save_tasks(tasks', store, writable)
       ELSE UNCHANGED <<tasks, store>>

\* A variant of edit_current_description that does not save.
edit_current_description_no_save(description) ==
    /\ UNCHANGED <<next_id, pc, max_seen, selected_index, store>>
    /\ tasks' = IF tasks # <<>> /\ selected_index < Len(tasks)
                THEN [tasks EXCEPT ![selected_index + 1].description = description]
                ELSE tasks

edit_current_description(description) ==
    /\ UNCHANGED <<next_id, pc, max_seen, selected_index>>
    /\ IF tasks # <<>> /\ selected_index < Len(tasks)
       THEN /\ tasks' = [tasks EXCEPT ![selected_index + 1].description = description]
            /\ store' = save_tasks(tasks', store, writable)
       ELSE UNCHANGED <<tasks, store>>

move_up ==
    /\ UNCHANGED <<tasks, next_id, pc, max_seen, store>>
    /\ selected_index' =
          IF tasks # <<>> /\ selected_index > 0
          THEN selected_index - 1
          ELSE selected_index

\* A variant of move_down that does not stop at the last task.
move_down_unclamped ==
    /\ UNCHANGED <<tasks, next_id, pc, max_seen, store>>
    /\ selected_index' =
          IF tasks # <<>> THEN selected_index + 1 ELSE selected_index

move_down ==
    /\ UNCHANGED <<tasks, next_id, pc, max_seen, store>>
    /\ selected_index' =
          IF tasks # <<>> /\ selected_index < Len(tasks) - 1
          THEN selected_index + 1
          ELSE selected_index

\* The process ends (main returns, or a panic unwinds): the App is dropped.
\* The data file and the environment stay.
Dropped ==
    /\ tasks' = <<>>
    /\ selected_index' = 0
    /\ mode' = "Normal"
    /\ input_buffer' = <<>>
    /\ next_id' = 0
    /\ typed' = 0
    /\ max_seen' = -1
    /\ snapshot' = <<>>

\* What the methods of App may change.
AppStore == <<tasks, selected_index, next_id, pc, max_seen, store>>

\* What no key changes.
Env == <<overflow_checks, writable, old_file, raw_mode, frame>>

(***************************************************************************)
(* handle_input, one action per arm of its match on (mode, key).           *)
(***************************************************************************)
TextModes == {"AddTask", "EditTask", "AddDescription", "EditDescription"}

Waiting(m) == pc = "running" /\ mode \in m

\* Normal: 'q' | 'Q'
KeyQuit ==
    /\ Waiting({"Normal"})
    /\ last_key' = "q"
    /\ before_toggle' = <<>>
    /\ pc' = "exited"
    /\ Dropped
    /\ UNCHANGED <<store, Env>>

\* Normal: Up
KeyUp ==
    /\ Waiting({"Normal"})
    /\ last_key' = "Up"
    /\ before_toggle' = <<>>
    /\ move_up
    /\ UNCHANGED <<mode, input_buffer, Env, typed, snapshot>>

\* Normal: Down
KeyDown ==
    /\ Waiting({"Normal"})
    /\ last_key' = "Down"
    /\ before_toggle' = <<>>
    /\ move_down
    /\ UNCHANGED <<mode, input_buffer, Env, typed, snapshot>>

\* Normal: ' '
KeyToggle ==
    /\ Waiting({"Normal"})
    /\ last_key' = "Space"
    /\ before_toggle' = tasks
    /\ toggle_task
    /\ UNCHANGED <<mode, input_buffer, Env, typed, snapshot>>

\* Normal: 'a' | 'A'
KeyAdd ==
    /\ Waiting({"Normal"})
    /\ last_key' = "a"
    /\ before_toggle' = <<>>
    /\ mode' = "AddTask"
    /\ input_buffer' = <<>>
    /\ snapshot' = tasks
    /\ UNCHANGED <<AppStore, Env, typed>>

\* Normal: 'e' | 'E'
KeyEdit ==
    /\ Waiting({"Normal"})
    /\ last_key' = "e"
    /\ before_toggle' = <<>>
    /\ IF tasks # <<>>
       THEN /\ mode' = "EditTask"
            /\ input_buffer' = tasks[selected_index + 1].title
            /\ snapshot' = tasks
       ELSE UNCHANGED <<mode, input_buffer, snapshot>>
    /\ UNCHANGED <<AppStore, Env, typed>>

\* A variant of KeyEditDescription that loads the title of the selected task
\* into the buffer.
KeyEditDescription_loads_title ==
    /\ Waiting({"Normal"})
    /\ last_key' = "d"
    /\ before_toggle' = <<>>
    /\ IF tasks # <<>>
       THEN /\ mode' = "EditDescription"
            /\ input_buffer' = tasks[selected_index + 1].title
            /\ snapshot' = tasks
       ELSE UNCHANGED <<mode, input_buffer, snapshot>>
    /\ UNCHANGED <<AppStore, Env, typed>>

\* Normal: 'd' | 'D'
KeyEditDescription ==
    /\ Waiting({"Normal"})
    /\ last_key' = "d"
    /\ before_toggle' = <<>>
    /\ IF tasks # <<>>
       THEN /\ mode' = "EditDescription"
            /\ input_buffer' = tasks[selected_index + 1].description
            /\ snapshot' = tasks
       ELSE UNCHANGED <<mode, input_buffer, snapshot>>
    /\ UNCHANGED <<AppStore, Env, typed>>

\* Normal: Delete
KeyDelete ==
    /\ Waiting({"Normal"})
    /\ last_key' = "Delete"
    /\ before_toggle' = <<>>
    /\ delete_task
    /\ UNCHANGED <<mode, input_buffer, Env, typed, snapshot>>

\* Normal: any other key; in a text-entry mode: any key but Esc, Enter,
\* Backspace and Char; in every mode: an event that is no key
KeyIgnored ==
    /\ pc = "running"
    /\ UNCHANGED vars

\* A variant of KeyEsc that leaves the buffer as it is.
KeyEsc_keeps_buffer ==
    /\ Waiting(TextModes)
    /\ last_key' = "Esc"
    /\ before_toggle' = <<>>
    /\ mode' = "Normal"
    /\ snapshot' = <<>>
    /\ UNCHANGED <<AppStore, input_buffer, Env, typed>>

\* text entry: Esc
KeyEsc ==
    /\ Waiting(TextModes)
    /\ last_key' = "Esc"
    /\ before_toggle' = <<>>
    /\ mode' = "Normal"
    /\ input_buffer' = <<>>
    /\ snapshot' = <<>>
    /\ UNCHANGED <<AppStore, Env, typed>>

\* A variant of KeyEnter that leaves AddTitle mode for AddDescription mode
\* and stays there (without the app.mode = AppMode::Normal after add_task).
KeyEnter_to_AddDescription ==
    /\ Waiting(TextModes)
    /\ last_key' = "Enter"
    /\ before_toggle' = <<>>
    /\ LET input == Trim(input_buffer)
       IN  IF input # <<>>
           THEN CASE mode = "AddTask" ->
                       /\ Len(tasks) < MaxTasks
                       /\ add_task(input_buffer, <<>>)
                       /\ mode' = "AddDescription"
                  [] mode = "EditTask" ->
                       /\ edit_current_task(input)
                       /\ mode' = "Normal"
                  [] mode = "AddDescription" ->
                       /\ mode' = "Normal"
                       /\ UNCHANGED AppStore
                  [] mode = "EditDescription" ->
                       /\ edit_current_description(input)
                       /\ mode' = "Normal"
           ELSE /\ mode' = "Normal"
                /\ UNCHANGED AppStore
    /\ input_buffer' = <<>>
    /\ snapshot' = <<>>
    /\ typed' = IF pc' = "panicked" THEN 0 ELSE typed
    /\ UNCHANGED Env

\* text entry: Enter
KeyEnter ==
    /\ Waiting(TextModes)
    /\ last_key' = "Enter"
    /\ before_toggle' = <<>>
    /\ LET input == Trim(input_buffer)
       IN  IF input # <<>>
           THEN CASE mode = "AddTask" ->
                       /\ Len(tasks) < MaxTasks
                       /\ add_task(input_buffer, <<>>)
                       /\ mode' = "Normal"
                  [] mode = "EditTask" ->
                       /\ edit_current_task(input)
                       /\ mode' = "Normal"
                  [] mode = "AddDescription" ->
                       /\ mode' = "Normal"
                       /\ UNCHANGED AppStore
                  [] mode = "EditDescription" ->
                       /\ edit_current_description(input)
                       /\ mode' = "Normal"
           ELSE /\ mode' = "Normal"
                /\ UNCHANGED AppStore
    /\ input_buffer' = <<>>
    /\ snapshot' = <<>>
    /\ typed' = IF pc' = "panicked" THEN 0 ELSE typed
    /\ UNCHANGED Env

\* text entry: Backspace
KeyBackspace ==
    /\ Waiting(TextModes)
    /\ last_key' = "Backspace"
    /\ before_toggle' = <<>>
    /\ input_buffer' = Pop(input_buffer)
    /\ UNCHANGED <<AppStore, mode, Env, typed, snapshot>>

\* text entry: Char(c) without the control modifier
KeyChar ==
    /\ Waiting(TextModes)
    /\ last_key' = "Char"
    /\ before_toggle' = <<>>
    /\ typed < MaxTyped
    /\ typed' = typed + 1
    /\ \E c \in TextChars : input_buffer' = Append(input_buffer, c)
    /\ UNCHANGED <<AppStore, mode, Env, snapshot>>

\* text entry: Char('c') with the control modifier
KeyCtrlC ==
    /\ Waiting(TextModes)
    /\ last_key' = "Ctrl-c"
    /\ before_toggle' = <<>>
    /\ pc' = "exited"
    /\ Dropped
    /\ UNCHANGED <<store, Env>>

\* text entry: Char(c) with the control modifier, c other than 'c'
KeyCtrlOther ==
    /\ Waiting(TextModes)
    /\ last_key' = "Ctrl-x"
    /\ before_toggle' = <<>>
    /\ UNCHANGED <<AppStore, mode, input_buffer, Env, typed, snapshot>>

Next ==
    \/ KeyQuit
    \/ KeyUp
    \/ KeyDown
    \/ KeyToggle
    \/ KeyAdd
    \/ KeyEdit
    \/ KeyEditDescription
    \/ KeyDelete
    \/ KeyIgnored
    \/ KeyEsc
    \/ KeyEnter
    \/ KeyBackspace
    \/ KeyChar
    \/ KeyCtrlC
    \/ KeyCtrlOther

Spec == Init /\ [][Next]_vars

(***************************************************************************)
(* The round trip through the data file: a session holding a task list     *)
(* saves it, and a new process loads it (App::new).                        *)
(***************************************************************************)
\* The task lists saved hold at most this many tasks.
MaxRTTasks == 2

\* Text with the characters the file format escapes.
RTTitles == {<<>>, <<"q", " ">>, <<"\"">>, <<"\\", "q">>}

RTDescriptions == {<<>>, <<"\"", "\\">>}

RTTasks ==
    { Task(i, t, d, c) : i \in 0..UsizeMax, t \in RTTitles,
                         d \in RTDescriptions, c \in BOOLEAN }

RTTaskSeqs == UNION { [1..n -> RTTasks] : n \in 0..MaxRTTasks }

RTInit ==
    \E ts \in RTTaskSeqs, checks \in BOOLEAN, w \in BOOLEAN :
        /\ pc = "rt_start"
        /\ tasks = ts
        /\ snapshot = ts
        /\ store = NoFile
        /\ overflow_checks = checks
        /\ writable = w
        /\ selected_index = 0
        /\ mode = "Normal"
        /\ input_buffer = <<>>
        /\ next_id = 0
        /\ typed = 0
        /\ max_seen = MaxSeenOf(ts)
        /\ last_key = "none"
        /\ before_toggle = <<>>
        /\ old_file = NoFile
        /\ raw_mode = FALSE
        /\ frame = NoFrame

\* self.save_tasks()
RTSave ==
    /\ pc = "rt_start"
    /\ pc' = "rt_saved"
    /\ store' = save_tasks(tasks, store, writable)
    /\ UNCHANGED <<tasks, selected_index, mode, input_buffer, next_id, Env,
                   typed, max_seen, snapshot, last_key, before_toggle>>

\* App::new() of a new process
RTLoad ==
    /\ pc = "rt_saved"
    /\ LET app == new(store, overflow_checks)
       IN  /\ pc' = IF app.panicked THEN "panicked" ELSE "rt_loaded"
           /\ tasks' = app.tasks
           /\ selected_index' = app.selected_index
           /\ mode' = app.mode
           /\ input_buffer' = app.input_buffer
           /\ next_id' = app.next_id
    /\ UNCHANGED <<store, Env, typed, max_seen, snapshot, last_key,
                   before_toggle>>

RTNext ==
    \/ RTSave
    \/ RTLoad

SpecRT == RTInit /\ [][RTNext]_vars

(***************************************************************************)
(* main, from the start of the process to its end: App::new with the       *)
(* migration of the legacy file, the one-shot options --add and --list,    *)
(* and the interactive session between enable_raw_mode and the cleanup.    *)
(* The data directory is the one under HOME.                               *)
(***************************************************************************)
\* The legacy files found at startup: none, one that does not parse, and one
\* that holds a task no data file of InitFiles holds.
LegacyFiles ==
    {NoFile, MalformedFile,
     FileOf(ToStringPretty(<<Task(0, <<"q", "q">>, <<"q">>, TRUE)>>))}

\* The values of --add and of --description: clap takes any string, the
\* empty one too.
ArgTitles == {<<>>, <<"q">>}

ArgDescriptions == {<<>>, <<"q">>}

\* A variant of migrate that copies the legacy file and does not remove it.
migrate_keeps_legacy(old, file, ok) ==
    IF old.exists /\ ~file.exists /\ ok
    THEN [old |-> old, file |-> FileOf(old.data)]
    ELSE [old |-> old, file |-> file]

\* load_tasks, the migration: the legacy file and the data file after it.
\* ok: the write of the data file succeeds.
migrate(old, file, ok) ==
    IF old.exists /\ ~file.exists /\ ok
    THEN [old |-> NoFile, file |-> FileOf(old.data)]
    ELSE [old |-> old, file |-> file]

\* The process starts: no App yet, the terminal in its normal mode.
MainInit ==
    \E file \in InitFiles, old \in LegacyFiles, checks \in BOOLEAN, w \in BOOLEAN :
        /\ pc = "main"
        /\ store = file
        /\ old_file = old
        /\ overflow_checks = checks
        /\ writable = w
        /\ tasks = <<>>
        /\ selected_index = 0
        /\ mode = "Normal"
        /\ input_buffer = <<>>
        /\ next_id = 1
        /\ typed = 0
        /\ max_seen = -1
        /\ snapshot = <<>>
        /\ last_key = "none"
        /\ before_toggle = <<>>
        /\ raw_mode = FALSE
        /\ frame = NoFrame

\* let mut app = App::new(): load_tasks migrates the legacy file, then loads
MainNew ==
    /\ pc = "main"
    /\ LET m == migrate(old_file, store, writable)
           app == new(m.file, overflow_checks)
       IN  /\ old_file' = m.old
           /\ store' = m.file
           /\ tasks' = app.tasks
           /\ selected_index' = app.selected_index
           /\ mode' = app.mode
           /\ input_buffer' = app.input_buffer
           /\ next_id' = app.next_id
           /\ max_seen' = MaxSeenOf(app.tasks)
           /\ pc' = IF app.panicked THEN "panicked" ELSE "created"
    /\ UNCHANGED <<overflow_checks, writable, typed, snapshot, last_key,
                   before_toggle, raw_mode, frame>>

\* --add TITLE [--description DESCRIPTION]: app.add_task(title, description)
MainAdd ==
    /\ pc = "created"
    /\ last_key = "none"
    /\ last_key' = "--add"
    /\ \E title \in ArgTitles, description \in ArgDescriptions :
          add_task(title, description)
    /\ UNCHANGED <<mode, input_buffer, Env, typed, snapshot, before_toggle>>

\* --add: println!, return Ok(())
MainAddReturn ==
    /\ pc = "created"
    /\ last_key = "--add"
    /\ pc' = "returned"
    /\ UNCHANGED <<tasks, selected_index, mode, input_buffer, next_id, store,
                   Env, typed, max_seen, snapshot, last_key, before_toggle>>

\* --list: the tasks are printed, return Ok(())
MainList ==
    /\ pc = "created"
    /\ last_key = "none"
    /\ last_key' = "--list"
    /\ pc' = "returned"
    /\ UNCHANGED <<tasks, selected_index, mode, input_buffer, next_id, store,
                   Env, typed, max_seen, snapshot, before_toggle>>

\* Neither option: terminal::enable_raw_mode()?, then the loop
MainInteractive ==
    /\ pc = "created"
    /\ last_key = "none"
    /\ \E enabled \in BOOLEAN :
          IF enabled
          THEN raw_mode' = TRUE /\ pc' = "running"
          ELSE raw_mode' = raw_mode /\ pc' = "io_error"
    /\ UNCHANGED <<tasks, selected_index, mode, input_buffer, next_id, store,
                   overflow_checks, writable, old_file, frame, typed, max_seen,
                   snapshot, last_key, before_toggle>>

\* draw_ui(&app)?: draw_ui returns an I/O error, and main returns it
DrawUiFails ==
    /\ pc = "running"
    /\ last_key' = "draw_ui"
    /\ before_toggle' = <<>>
    /\ pc' = "io_error"
    /\ Dropped
    /\ UNCHANGED <<store, Env>>

\* handle_input(&mut app)?: event::read() returns an I/O error, and main
\* returns it
ReadFails ==
    /\ pc = "running"
    /\ last_key' = "event::read"
    /\ before_toggle' = <<>>
    /\ pc' = "io_error"
    /\ Dropped
    /\ UNCHANGED <<store, Env>>

\* After the loop: execute!(Clear, MoveTo)?, terminal::disable_raw_mode()?,
\* return Ok(())
MainCleanup ==
    /\ pc = "exited"
    /\ \E cleared \in BOOLEAN, disabled \in BOOLEAN :
          IF cleared /\ disabled
          THEN raw_mode' = FALSE /\ pc' = "returned"
          ELSE raw_mode' = raw_mode /\ pc' = "io_error"
    /\ UNCHANGED <<tasks, selected_index, mode, input_buffer, next_id, store,
                   overflow_checks, writable, old_file, frame, typed, max_seen,
                   snapshot, last_key, before_toggle>>

MainNext ==
    \/ MainNew
    \/ MainAdd
    \/ MainAddReturn
    \/ MainList
    \/ MainInteractive
    \/ DrawUiFails
    \/ ReadFails
    \/ MainCleanup
    \/ Next

SpecMain == MainInit /\ [][MainNext]_vars

(***************************************************************************)
(* draw_ui: the numbers of the frame, computed from the App and the size   *)
(* of the terminal.  Rows and columns are u16, lengths are usize.          *)
(***************************************************************************)
\* u16::MAX
U16Max == 65535

\* header_text.len()
HeaderLen == 31

\* status_text.len(), in Normal mode and in the other modes (bytes)
StatusLenNormal == 110

StatusLenText == 39

\* let content_start = 2u16
ContentStart == 2

\* The terminal sizes drawn have at most this many rows (or u16::MAX rows)
\* and at most this many columns.
MaxRows == 8

MaxCols == 120

\* terminal::size(): the rows and the columns the terminal reports
Rows == (0..MaxRows) \cup {U16Max}

Cols == {0, HeaderLen, MaxCols}

\* a.saturating_sub(b)
SaturatingSub(a, b) == IF a >= b THEN a - b ELSE 0

RECURSIVE DrawTasks(_, _, _)
\* The loop over the tasks: the line after the last task drawn, from the
\* n tasks still to draw, the current line and the end of the content area.
DrawTasks(n, current_line, content_end) ==
    IF n = 0 \/ current_line >= content_end THEN current_line
    ELSE DrawTasks(n - 1, current_line + 1, content_end)

\* draw_ui: the frame drawn for the task list ts in mode m on a terminal of
\* cols columns and rows rows.  rows - 1 is a u16 subtraction: on 0 rows it
\* panics in a build with overflow checks and wraps in one without.
draw_ui(ts, m, cols, rows, checks) ==
    LET content_end == SaturatingSub(rows, 2)
        list_start == IF m # "Normal" THEN ContentStart + 1 + 2 ELSE ContentStart
        current_line == IF ts = <<>> THEN list_start
                        ELSE DrawTasks(Len(ts), list_start, content_end)
    IN  [drawn |-> TRUE, cols |-> cols, rows |-> rows,
         padding |-> SaturatingSub(cols, HeaderLen),
         content_end |-> content_end,
         list_start |-> list_start,
         current_line |-> current_line,
         footer_row |-> (rows - 1) % (U16Max + 1),
         status_padding |->
             SaturatingSub(cols, IF m = "Normal" THEN StatusLenNormal
                                 ELSE StatusLenText),
         wrapped |-> (rows - 1 < 0 \/ current_line > U16Max),
         panicked |-> (checks /\ (rows - 1 < 0 \/ current_line > U16Max))]

\* enum AppMode
AppModes == {"Normal"} \cup TextModes

\* The task lists drawn: up to MaxTasks tasks.
DrawTaskSeqs ==
    { [k \in 1..n |-> Task(k, <<"q">>, IF k = 2 THEN <<"q">> ELSE <<>>, k = 1)] :
        n \in 0..MaxTasks }

\* An App to draw.
DrawInit ==
    \E ts \in DrawTaskSeqs, m \in AppModes, checks \in BOOLEAN :
    \E sel \in 0..(IF ts = <<>> THEN 0 ELSE Len(ts) - 1) :
    \E buf \in (IF m = "Normal" THEN {<<>>} ELSE {<<>>, <<"q">>}) :
        /\ pc = "draw"
        /\ tasks = ts
        /\ selected_index = sel
        /\ mode = m
        /\ input_buffer = buf
        /\ next_id = Len(ts) + 1
        /\ store = FileOf(ToStringPretty(ts))
        /\ overflow_checks = checks
        /\ writable = TRUE
        /\ typed = 0
        /\ max_seen = MaxSeenOf(ts)
        /\ snapshot = <<>>
        /\ last_key = "none"
        /\ before_toggle = <<>>
        /\ old_file = NoFile
        /\ raw_mode = TRUE
        /\ frame = NoFrame

\* draw_ui(&app): the frame is drawn, or draw_ui panics, or a write to the
\* terminal (or terminal::size()) returns an I/O error.  The App is borrowed
\* immutably.
DrawUi ==
    /\ pc = "draw"
    /\ \E cols \in Cols, rows \in Rows, io_ok \in BOOLEAN :
          LET f == draw_ui(tasks, mode, cols, rows, overflow_checks)
          IN  /\ frame' = f
              /\ pc' = IF f.panicked THEN "panicked"
                       ELSE IF io_ok THEN "drawn" ELSE "io_error"
    /\ UNCHANGED <<tasks, selected_index, mode, input_buffer, next_id, store,
                   overflow_checks, writable, typed, max_seen, snapshot,
                   last_key, before_toggle, old_file, raw_mode>>

DrawNext == DrawUi

SpecDraw == DrawInit /\ [][DrawNext]_vars

(***************************************************************************)
(* The properties.  What they say of text is stated here on its own, not   *)
(* with the operators of the model.                                        *)
(***************************************************************************)
Running == pc = "running"

\* s is empty or holds only white space
Blank(s) == \A k \in 1..Len(s) : IsWhitespace(s[k])

\* t is s without its leading and trailing white space
IsTrimOf(t, s) ==
    \E a \in 0..Len(s) :
        /\ a + Len(t) <= Len(s)
        /\ \A k \in 1..a : IsWhitespace(s[k])
        /\ \A k \in 1..Len(t) : t[k] = s[a + k]
        /\ \A k \in (a + Len(t) + 1)..Len(s) : IsWhitespace(s[k])
        /\ t # <<>> => ~IsWhitespace(t[1]) /\ ~IsWhitespace(t[Len(t)])

NoSharedId(ts) ==
    \A i, j \in 1..Len(ts) : i # j => ts[i].id # ts[j].id

\* The step appends one task to the list.
Appends == Len(tasks') = Len(tasks) + 1 /\ SubSeq(tasks', 1, Len(tasks)) = tasks

\* The data file holds exactly the task list ts.
FileHolds(file, ts) ==
    /\ file.exists
    /\ FromStr(file.data).ok
    /\ FromStr(file.data).value = ts

\* C1: the id of every task added is greater than the id of every task
\* loaded or added before it in the session (so no id is used again, also
\* after a delete), and no two tasks of the list share an id.
C1_IdsIncreasingAndUnique ==
    [][pc' = "running" =>
         /\ NoSharedId(tasks')
         /\ (Running /\ last_key' = "Enter" /\ Appends) =>
               tasks'[Len(tasks')].id > max_seen]_vars

\* C2: while the session waits for a key and the list is not empty,
\* 0 <= selected_index <= len - 1, so tasks[selected_index] is in range when
\* an edit key is pressed.
C2_SelectedIndexInRange ==
    (Running /\ tasks # <<>>) =>
        (0 <= selected_index /\ selected_index <= Len(tasks) - 1)

\* The edit key was pressed with the selection on the last of two or more
\* tasks, after a task behind them was deleted.
C2_Witness ==
    /\ Running
    /\ last_key = "e"
    /\ mode = "EditTask"
    /\ Len(tasks) >= 2
    /\ selected_index = Len(tasks) - 1
    /\ max_seen > MaxIdOf(tasks)
    /\ next_id = max_seen + 1

\* C3: the delete key in Normal mode on a non-empty list removes the selected
\* task and no other, keeps the order of the rest, and repairs the selection:
\* new_length - 1 if the list is not empty and the old index is >= the new
\* length, unchanged otherwise; with three tasks and the selection at 2 it
\* leaves two tasks and the selection at 1.
C3_DeleteRemovesSelected ==
    [][(Running /\ mode = "Normal" /\ tasks # <<>> /\ last_key' = "Delete") =>
         /\ Len(tasks') = Len(tasks) - 1
         /\ \A k \in 0..(Len(tasks') - 1) :
               tasks'[k + 1] = IF k < selected_index THEN tasks[k + 1]
                               ELSE tasks[k + 2]
         /\ selected_index' =
               IF tasks' # <<>> /\ selected_index >= Len(tasks')
               THEN Len(tasks') - 1
               ELSE selected_index
         /\ (Len(tasks) = 3 /\ selected_index = 2) =>
               (Len(tasks') = 2 /\ selected_index' = 1)]_vars

\* The last of three tasks was deleted while selected: two are left, the
\* selection is on the second.
C3_Witness ==
    /\ Running
    /\ last_key = "Delete"
    /\ Len(tasks) = 2
    /\ selected_index = 1
    /\ max_seen > MaxIdOf(tasks)
    /\ next_id = max_seen + 1

\* C4: Enter in AddTitle mode with a buffer that is not blank appends exactly
\* one task, whose title is the trimmed buffer, whose description is empty
\* and which is not completed; the mode is Normal again, the buffer empty.
C4_AddCommitsTrimmedTitle ==
    [][(Running /\ mode = "AddTask" /\ ~Blank(input_buffer)
          /\ last_key' = "Enter" /\ pc' = "running") =>
         /\ Appends
         /\ IsTrimOf(tasks'[Len(tasks')].title, input_buffer)
         /\ tasks'[Len(tasks')].description = <<>>
         /\ tasks'[Len(tasks')].completed = FALSE
         /\ mode' = "Normal"
         /\ input_buffer' = <<>>]_vars

\* C5: Enter in EditTitle (EditDescription) mode with a buffer that is not
\* blank replaces the title (description) of the selected task by the trimmed
\* buffer; the other fields of that task, the other tasks, the order, the
\* selected index and the id counter stay; the mode is Normal again, the
\* buffer empty.
C5_EditReplacesField ==
    [][(Running /\ mode \in {"EditTask", "EditDescription"}
          /\ ~Blank(input_buffer) /\ last_key' = "Enter") =>
         /\ Len(tasks') = Len(tasks)
         /\ \A k \in 1..Len(tasks) : k # selected_index + 1 => tasks'[k] = tasks[k]
         /\ LET before == tasks[selected_index + 1]
                after == tasks'[selected_index + 1]
            IN  /\ after.id = before.id
                /\ after.completed = before.completed
                /\ IF mode = "EditTask"
                   THEN /\ IsTrimOf(after.title, input_buffer)
                        /\ after.description = before.description
                   ELSE /\ IsTrimOf(after.description, input_buffer)
                        /\ after.title = before.title
         /\ selected_index' = selected_index
         /\ next_id' = next_id
         /\ pc' = "running"
         /\ mode' = "Normal"
         /\ input_buffer' = <<>>]_vars

\* An Enter committed a description that was typed with white space around it.
C5_Witness ==
    /\ Running
    /\ last_key = "Enter"
    /\ mode = "Normal"
    /\ typed = 2
    /\ \E k \in 1..Len(tasks) : tasks[k].description = <<"q">>

\* C6: Enter in a text-entry mode with a blank buffer adds and edits nothing:
\* the task list, the id counter and the data file stay, the mode is Normal
\* again, the buffer empty.
C6_BlankEnterChangesNothing ==
    [][(Running /\ mode \in TextModes /\ Blank(input_buffer)
          /\ last_key' = "Enter") =>
         /\ tasks' = tasks
         /\ next_id' = next_id
         /\ store' = store
         /\ pc' = "running"
         /\ mode' = "Normal"
         /\ input_buffer' = <<>>]_vars

\* Characters were typed and Enter pressed, and there is neither a task nor a
\* data file: the Enter met a blank buffer.
C6_Witness ==
    /\ Running
    /\ last_key = "Enter"
    /\ mode = "Normal"
    /\ typed > 0
    /\ tasks = <<>>
    /\ ~store.exists

\* C7: Escape in a mode other than Normal leaves the mode Normal and the
\* buffer empty, whatever it held, and the task list as it was when the
\* text-entry mode was entered.
C7_EscapeDiscards ==
    [][(Running /\ mode # "Normal" /\ last_key' = "Esc") =>
         /\ mode' = "Normal"
         /\ input_buffer' = <<>>
         /\ tasks' = snapshot
         /\ pc' = "running"]_vars

\* Escape was pressed after typing, with tasks in the list.
C7_Witness ==
    /\ Running
    /\ last_key = "Esc"
    /\ mode = "Normal"
    /\ input_buffer = <<>>
    /\ typed > 0
    /\ tasks # <<>>

\* C8: the toggle key flips the completed flag of the selected task and
\* changes nothing else; pressed twice in a row it gives back the task list
\* there was before; on an empty list it changes nothing.
C8_ToggleFlipsSelected ==
    [][(Running /\ mode = "Normal" /\ last_key' = "Space") =>
         /\ Len(tasks') = Len(tasks)
         /\ \A k \in 1..Len(tasks) :
               tasks'[k] = IF k = selected_index + 1
                           THEN [tasks[k] EXCEPT !.completed = ~tasks[k].completed]
                           ELSE tasks[k]
         /\ selected_index' = selected_index
         /\ next_id' = next_id
         /\ mode' = mode
         /\ input_buffer' = input_buffer
         /\ pc' = "running"
         /\ tasks = <<>> => store' = store
         /\ last_key = "Space" => tasks' = before_toggle]_vars

\* The toggle key completed the second task, the first is not completed.
C8_Witness ==
    /\ Running
    /\ last_key = "Space"
    /\ Len(tasks) >= 2
    /\ selected_index = 1
    /\ tasks[2].completed
    /\ ~tasks[1].completed

\* C9: provided writes succeed, every operation that changes the task list
\* leaves the data file holding exactly the new list, and the file keeps
\* holding the list at every later wait for a key (a step that changes
\* neither the list nor the file keeps it so).
C9_StoreFollowsTasks ==
    [][(writable /\ Running /\ pc' = "running"
          /\ (tasks' # tasks \/ store' # store)) =>
         /\ tasks' # tasks => FileHolds(store', tasks')
         /\ FileHolds(store, tasks) => FileHolds(store', tasks')]_vars

\* The only task was deleted, and the data file holds the empty list.
C9_Witness ==
    /\ Running
    /\ writable
    /\ last_key = "Delete"
    /\ max_seen >= 0
    /\ tasks = <<>>
    /\ store = FileOf(<<>>)

\* C10: a task list saved and loaded by a new process comes back equal, and
\* the id counter after the load is the largest id + 1, greater than every
\* id present (1 for the empty list), also when the largest id is the
\* largest value of the id type.
C10_RoundTrip ==
    (writable /\ pc \in {"rt_loaded", "panicked"}) =>
        /\ pc = "rt_loaded"
        /\ tasks = snapshot
        /\ next_id = IF snapshot = <<>> THEN 1 ELSE MaxIdOf(snapshot) + 1
        /\ snapshot # <<>> => next_id > MaxIdOf(snapshot)

\* C11: raw mode is enabled while the interactive loop runs, and it is
\* disabled when the process has ended after the session: after a quit, after
\* Ctrl-C in a text-entry mode, and after an I/O error returned by draw_ui or
\* by the read of an event.
C11_RawModeScoped ==
    /\ pc = "running" => raw_mode
    /\ pc \in {"returned", "io_error"} => ~raw_mode

\* C12: the data file and the legacy file of the start hold no task with an
\* empty title, and no caller of add_task passes an empty title, neither the
\* Enter of AddTitle mode nor the option --add: no task of the list, and no
\* task of the data file, has an empty title.
C12_NoEmptyTitle ==
    /\ \A k \in 1..Len(tasks) : tasks[k].title # <<>>
    /\ (store.exists /\ FromStr(store.data).ok) =>
          \A k \in 1..Len(FromStr(store.data).value) :
              FromStr(store.data).value[k].title # <<>>

\* The task list a file describes: the list it parses to, none if it does
\* not parse.
Described(file) ==
    IF FromStr(file.data).ok THEN FromStr(file.data).value ELSE <<>>

\* What C13 says of a load (the step of App::new) that does not panic.
\* copied: the condition under which the legacy file is migrated.
MigrationAtLoad(copied) ==
    (pc = "main" /\ pc' = "created") =>
        /\ (old_file.exists /\ ~store.exists /\ copied) =>
              /\ store' = FileOf(old_file.data)
              /\ ~old_file'.exists
              /\ tasks' = Described(old_file)
        /\ store.exists => (old_file' = old_file /\ store' = store)

C14_LoopEndsOnQuitOnly ==
    [][Running =>
         /\ pc' # "running" <=>
               \/ mode = "Normal" /\ last_key' = "q"
               \/ mode \in TextModes /\ last_key' = "Ctrl-c"
         /\ mode = "Normal" => ENABLED KeyQuit
         /\ mode # "Normal" => ENABLED KeyEsc
         /\ last_key' = "Esc" => (pc' = "running" /\ mode' = "Normal")]_vars

\* C15: wherever the loop waits for a key (and a frame is drawn), the mode is
\* Normal, AddTitle, EditTitle or EditDescription, never AddDescription; and
\* every task the Enter of AddTitle mode appends has an empty description.
C15_AddDescriptionNeverObserved ==
    /\ [](Running => mode \in {"Normal", "AddTask", "EditTask", "EditDescription"})
    /\ [][(Running /\ mode = "AddTask" /\ last_key' = "Enter" /\ tasks' # tasks
             /\ pc' = "running") =>
            /\ Appends
            /\ tasks'[Len(tasks')].description = <<>>
            /\ mode' = "Normal"]_vars

\* A second task was added in the session (the data file of the start held
\* at most one): the list holds two, the new one without a description, and
\* the mode is Normal.
C15_Witness ==
    /\ Running
    /\ last_key = "Enter"
    /\ mode = "Normal"
    /\ Len(tasks) = 2
    /\ tasks[2].id = max_seen
    /\ tasks[2].description = <<>>

\* C16: in Normal mode the up key lowers the selected index by 1 unless it
\* is 0, the down key raises it by 1 unless it is len - 1, both change
\* nothing on an empty list, and neither changes the task list, the mode, the
\* buffer, the id counter or the data file.
C16_UpDownMoveSelectionOnly ==
    [][(Running /\ mode = "Normal" /\ last_key' \in {"Up", "Down"}) =>
         /\ last_key' = "Up" =>
               selected_index' = IF tasks = <<>> \/ selected_index = 0
                                 THEN selected_index
                                 ELSE selected_index - 1
         /\ last_key' = "Down" =>
               selected_index' = IF tasks = <<>> \/ selected_index = Len(tasks) - 1
                                 THEN selected_index
                                 ELSE selected_index + 1
         /\ tasks' = tasks
         /\ mode' = mode
         /\ input_buffer' = input_buffer
         /\ next_id' = next_id
         /\ store' = store
         /\ pc' = "running"]_vars

\* The down key was pressed with the selection on the last of three tasks,
\* and the selection is still there.
C16_Witness ==
    /\ Running
    /\ last_key = "Down"
    /\ Len(tasks) = 3
    /\ selected_index = 2
    /\ mode = "Normal"

\* C17: in a text-entry mode, Escape, Backspace, a character and a
\* control-modified character leave the task list, the selected index, the id
\* counter and the data file as they are (of Ctrl-C, which ends the session,
\* the data file); a character without the control modifier is appended to
\* the buffer, Backspace removes the last character of the buffer and does
\* nothing on an empty one, a control-modified character other than Ctrl-C
\* changes nothing; and only Enter with a buffer that is not blank changes
\* the task list.
C17_TextEntryKeysKeepTasks ==
    [][(Running /\ mode \in TextModes) =>
         /\ last_key' \in {"Esc", "Backspace", "Char", "Ctrl-x"} =>
               /\ tasks' = tasks
               /\ selected_index' = selected_index
               /\ next_id' = next_id
               /\ store' = store
               /\ pc' = "running"
         /\ last_key' = "Ctrl-c" => (store' = store /\ pc' = "exited")
         /\ last_key' = "Char" =>
               /\ \E c \in TextChars : input_buffer' = input_buffer \o <<c>>
               /\ mode' = mode
         /\ last_key' = "Backspace" =>
               /\ input_buffer' = IF input_buffer = <<>> THEN <<>>
                                  ELSE SubSeq(input_buffer, 1, Len(input_buffer) - 1)
               /\ mode' = mode
         /\ last_key' = "Ctrl-x" =>
               (mode' = mode /\ input_buffer' = input_buffer)
         /\ (tasks' # tasks /\ pc' # "exited") =>
               (last_key' = "Enter" /\ ~Blank(input_buffer))]_vars

\* Two characters were typed and Backspace removed the second.
C17_Witness ==
    /\ Running
    /\ mode = "AddTask"
    /\ last_key = "Backspace"
    /\ typed = 2
    /\ Len(input_buffer) = 1
    /\ tasks = snapshot

\* C18: for every App and every terminal size, 0 or 1 rows and 0 columns
\* included, draw_ui does not abort, none of its unsigned computations
\* underflows or overflows, the content area, the paddings and the footer row
\* are what the claim says (the footer on the last row, rows - 1), and the
\* App after the call is the App before it.
C18_DrawUiTotalAndPure ==
    [][pc = "draw" =>
         /\ pc' # "panicked"
         /\ ~frame'.wrapped
         /\ frame'.footer_row = frame'.rows - 1
         /\ frame'.content_end = IF frame'.rows >= 2 THEN frame'.rows - 2 ELSE 0
         /\ frame'.padding >= 0
         /\ frame'.status_padding >= 0
         /\ frame'.current_line \in ContentStart..U16Max
         /\ <<tasks', selected_index', mode', input_buffer', next_id'>>
               = <<tasks, selected_index, mode, input_buffer, next_id>>]_vars

\* C19: whenever the loop waits in EditTitle or EditDescription mode, the
\* list is not empty, selected_index is in range and the list is the one
\* there was when the mode was entered.  The edit keys of Normal mode change
\* nothing on an empty list and otherwise enter the mode with the title
\* (description) of the selected task in the buffer.  No key that stays in the
\* mode changes the list or the selection, and Enter with a buffer that is
\* not blank writes the trimmed buffer into that field of the selected task.
C19_EditModeHasSelectedTask ==
    /\ [](Running /\ mode \in {"EditTask", "EditDescription"} =>
            /\ tasks # <<>>
            /\ selected_index \in 0..(Len(tasks) - 1)
            /\ tasks = snapshot)
    /\ [][/\ (Running /\ mode = "Normal" /\ last_key' \in {"e", "d"}) =>
               /\ <<tasks', selected_index', next_id', store', pc'>>
                     = <<tasks, selected_index, next_id, store, pc>>
               /\ IF tasks = <<>>
                  THEN mode' = mode /\ input_buffer' = input_buffer
                  ELSE IF last_key' = "e"
                  THEN /\ mode' = "EditTask"
                       /\ input_buffer' = tasks[selected_index + 1].title
                  ELSE /\ mode' = "EditDescription"
                       /\ input_buffer' = tasks[selected_index + 1].description
          /\ (Running /\ mode \in {"EditTask", "EditDescription"}) =>
               /\ mode' = mode =>
                     (tasks' = tasks /\ selected_index' = selected_index)
               /\ (last_key' = "Enter" /\ ~Blank(input_buffer)) =>
                     /\ selected_index' = selected_index
                     /\ Len(tasks') = Len(snapshot)
                     /\ IsTrimOf(IF mode = "EditTask"
                                 THEN tasks'[selected_index + 1].title
                                 ELSE tasks'[selected_index + 1].description,
                                 input_buffer)]_vars

\* The description key was pressed on the second of two tasks, which has a
\* description: the buffer holds it.
C19_Witness ==
    /\ Running
    /\ last_key = "d"
    /\ mode = "EditDescription"
    /\ selected_index = 1
    /\ Len(tasks) = 2
    /\ tasks[2].description # <<>>
    /\ input_buffer = tasks[2].description

\* C20: whenever the loop waits for a key in Normal mode, the buffer is
\* empty: at startup, after Escape, after Enter with or without a commit,
\* after a key Normal mode ignores, and after an edit key on an empty list.
C20_NormalModeBufferEmpty ==
    (Running /\ mode = "Normal") => input_buffer = <<>>

\* Text was typed and then discarded with Escape, on an empty list.
C20_Witness ==
    /\ Running
    /\ mode = "Normal"
    /\ last_key = "Esc"
    /\ typed = 2
    /\ tasks = <<>>
    /\ input_buffer = <<>>

====
